---- MODULE Spec2Model ----
(***************************************************************************)
(* Court booking (src/main.py): the time parsing (_parse_time), the window *)
(* matching (is_matching_time_slot), the court selection                   *)
(* (CourtBooker._select_court), the booking flow                           *)
(* (CourtBooker.execute_booking), the candidate search                     *)
(* (CourtBooker._find_matching_courts), the parallel run (main,            *)
(* process_user) and the user discovery (get_valid_users,                  *)
(* CourtBooker._load_config).                                              *)
(*                                                                         *)
(* A Python str is modelled as a sequence of one-character strings, so     *)
(* that lower(), strip(), replace(), split(), `in` and int() are computed  *)
(* character by character as Python computes them.                         *)
(***************************************************************************)
EXTENDS Integers, Sequences, FiniteSets, TLC

VARIABLES
    \* ---- _parse_time called on a configured time string
    ptIn,       \* the parameters the input string is built from
    ptText,     \* desired_time, the input string
    ptOut,      \* the outcome of _parse_time(desired_time), or NotRun
    ptBack,     \* the outcome of _parse_time on the 12-hour rendering of ptOut
    \* ---- is_matching_time_slot called as _select_court calls it
    mHour,      \* start_hour as returned by _parse_time (0..23)
    mLabelHour, \* the start hour of the window the slot label denotes
    mForm,      \* the label's form: 1 "H:00 xm - H:00 xm", 2 "Hxm-Hxm"
    mResult,    \* "none", or "True" / "False" as is_matching_time_slot returned
    \* ---- CourtBooker._select_court on a results page
    config,     \* self.config['booking']: time, facility, court_number
    page,       \* the results page: shown (a dateblock is present) and its
                \* result-content blocks in page order
    clicked,    \* the slots clicked so far, each <<block index, slot index>>
    cart,       \* the cart items found after the click
    raised,     \* the exception _select_court caught, "" when none
    ret,        \* "none" before the call, then "True" / "False" as returned
    \* ---- CourtBooker.execute_booking
    pc,         \* the step execute_booking is at
    calls,      \* the booking steps invoked so far, in order
    rets,       \* what each of them returned
    logged_in,  \* self.logged_in
    logouts,    \* the _logout calls made: the way each ended
    quits,      \* the number of driver.quit() calls
    pending,    \* the value of the return statement reached in the try block
    returned,   \* "none", then what execute_booking returned
    \* ---- CourtBooker._find_matching_courts
    fIn,        \* the arguments: result_contents and the three strings
    fOut,       \* what one call computed: scores, blocks examined, court_matches
    \* ---- main and process_user
    users,      \* the list get_valid_users returned
    max_workers,\* args.max_workers
    submitted,  \* how many users main has submitted to the executor
    queue,      \* the executor's work queue
    running,    \* the users a worker thread is running process_user for
    outcome,    \* per user, how CourtBooker and execute_booking ended
    future,     \* per user, the state of its future and its result
    yielded,    \* the users whose future as_completed has yielded
    results,    \* the results dict of main
    processed,  \* per user, the number of process_user calls
    mainpc,     \* where main is
    login_way,  \* execute_booking: how _login ended
    \* ---- get_valid_users and CourtBooker._load_config
    sections,   \* config.sections() of config.ini, in file order
    valid_users,\* what get_valid_users returned
    loaded      \* per user, how _load_config ended

parseVars == <<ptIn, ptText, ptOut, ptBack>>
matchVars == <<mHour, mLabelHour, mForm, mResult>>
selectVars == <<config, page, clicked, cart, raised, ret>>
bookVars == <<pc, calls, rets, logged_in, logouts, quits, pending, returned, login_way>>
findVars == <<fIn, fOut>>
poolVars == <<users, max_workers, submitted, queue, running, outcome, future,
              yielded, results, processed, mainpc>>
configVars == <<sections, valid_users, loaded>>
vars == <<ptIn, ptText, ptOut, ptBack, mHour, mLabelHour, mForm, mResult,
          config, page, clicked, cart, raised, ret,
          pc, calls, rets, logged_in, logouts, quits, pending, returned,
          fIn, fOut,
          users, max_workers, submitted, queue, running, outcome, future,
          yielded, results, processed, mainpc,
          login_way, sections, valid_users, loaded>>

----------------------------------------------------------------------------
(* Python str operations on sequences of characters                         *)

DigitChars == <<"0", "1", "2", "3", "4", "5", "6", "7", "8", "9">>
UpperChars == <<"A", "B", "C", "D", "E", "F", "G", "H", "I", "J", "K", "L", "M",
                "N", "O", "P", "Q", "R", "S", "T", "U", "V", "W", "X", "Y", "Z">>
LowerChars == <<"a", "b", "c", "d", "e", "f", "g", "h", "i", "j", "k", "l", "m",
                "n", "o", "p", "q", "r", "s", "t", "u", "v", "w", "x", "y", "z">>

\* c.isdigit()
IsDigit(c) == \E d \in 1..10 : DigitChars[d] = c

DigitVal(c) == (CHOOSE d \in 1..10 : DigitChars[d] = c) - 1

\* int(s) for a non-empty string of digits (leading zeros allowed)
RECURSIVE StrToInt(_)
StrToInt(s) ==
    IF Len(s) = 0 THEN 0
    ELSE StrToInt(SubSeq(s, 1, Len(s) - 1)) * 10 + DigitVal(s[Len(s)])

\* int(s) raises ValueError
IntRaises(s) == Len(s) = 0 \/ \E i \in 1..Len(s) : ~IsDigit(s[i])

\* f"{n}" for n >= 0
RECURSIVE IntToStr(_)
IntToStr(n) ==
    IF n < 10 THEN <<DigitChars[n + 1]>>
    ELSE IntToStr(n \div 10) \o <<DigitChars[(n % 10) + 1]>>

\* t in s
Contains(s, t) ==
    \E i \in 0..(Len(s) - Len(t)) : SubSeq(s, i + 1, i + Len(t)) = t

LowerChar(c) ==
    IF \E i \in 1..26 : UpperChars[i] = c
    THEN LowerChars[CHOOSE i \in 1..26 : UpperChars[i] = c]
    ELSE c

\* s.lower()
Lower(s) == [i \in 1..Len(s) |-> LowerChar(s[i])]

\* s.replace(" ", "")
RemoveSpaces(s) == LET NotSpace(c) == c # " " IN SelectSeq(s, NotSpace)

RECURSIVE LStrip(_)
LStrip(s) == IF Len(s) > 0 /\ s[1] = " " THEN LStrip(Tail(s)) ELSE s

RECURSIVE RStrip(_)
RStrip(s) ==
    IF Len(s) > 0 /\ s[Len(s)] = " " THEN RStrip(SubSeq(s, 1, Len(s) - 1)) ELSE s

\* s.strip()
Strip(s) == RStrip(LStrip(s))

\* ' '.join(s.split()): runs of blanks become one blank, none at the ends
RECURSIVE SqueezeSpaces(_)
SqueezeSpaces(s) ==
    IF Len(s) < 2 THEN s
    ELSE IF s[1] = " " /\ s[2] = " " THEN SqueezeSpaces(Tail(s))
    ELSE <<s[1]>> \o SqueezeSpaces(Tail(s))

JoinSplit(s) == SqueezeSpaces(Strip(s))

\* the position of the first c in s, 0 when there is none
IndexOf(s, c) ==
    IF \E i \in 1..Len(s) : s[i] = c
    THEN CHOOSE i \in 1..Len(s) : s[i] = c /\ \A j \in 1..(i - 1) : s[j] # c
    ELSE 0

\* s.split(c)[0]
SplitHead(s, c) == IF IndexOf(s, c) = 0 THEN s ELSE SubSeq(s, 1, IndexOf(s, c) - 1)

\* the text after the first c
SplitRest(s, c) == SubSeq(s, IndexOf(s, c) + 1, Len(s))

\* s.count(c)
CountChar(s, c) == Cardinality({i \in 1..Len(s) : s[i] = c})

----------------------------------------------------------------------------
(* CourtBooker._parse_time                                                  *)

NotRun == [kind |-> "notrun"]
Raised == [kind |-> "error"]
Parsed(h, m) == [kind |-> "ok", hour |-> h, minute |-> m]

s_am == <<"a", "m">>
s_pm == <<"p", "m">>
s_a_m_dot == <<"a", ".", "m", ".">>
s_a_m == <<"a", ".", "m">>
s_p_m_dot == <<"p", ".", "m", ".">>
s_p_m == <<"p", ".", "m">>

AmIndicator(clean_time) ==
    Contains(clean_time, s_am) \/ Contains(clean_time, s_a_m_dot)
        \/ Contains(clean_time, s_a_m)

PmIndicator(clean_time) ==
    Contains(clean_time, s_pm) \/ Contains(clean_time, s_p_m_dot)
        \/ Contains(clean_time, s_p_m)

\* ''.join([c for c in clean_time if c.isdigit() or c == ':'])
NumericPart(clean_time) ==
    LET Keep(c) == IsDigit(c) \/ c = ":" IN SelectSeq(clean_time, Keep)

\* HourCorrection with the pm test written hour <= 12
HourCorrectionLe(hour, am_indicator, pm_indicator) ==
    IF pm_indicator /\ hour <= 12 THEN hour + 12
    ELSE IF am_indicator /\ hour = 12 THEN 0
    ELSE hour

\* HourCorrection with the am test made after the pm correction (if, if)
HourCorrectionSeq(hour, am_indicator, pm_indicator) ==
    LET h1 == IF pm_indicator /\ hour < 12 THEN hour + 12 ELSE hour
    IN IF am_indicator /\ h1 = 12 THEN 0 ELSE h1

\* if pm_indicator and hour < 12: hour += 12
\* elif am_indicator and hour == 12: hour = 0
HourCorrection(hour, am_indicator, pm_indicator) ==
    IF pm_indicator /\ hour < 12 THEN hour + 12
    ELSE IF am_indicator /\ hour = 12 THEN 0
    ELSE hour

\* HourOfToken without the default for the empty token: int("") raises
HourOfTokenStrict(numeric_part) ==
    IF IntRaises(numeric_part) THEN Raised ELSE Parsed(StrToInt(numeric_part), 0)

\* the token without ':' : hour = int(numeric_part) if numeric_part else 0
HourOfToken(numeric_part) ==
    IF Len(numeric_part) = 0 THEN Parsed(0, 0)
    ELSE Parsed(StrToInt(numeric_part), 0)

\* the token with ':' : hour_str, minute_str = numeric_part.split(':')
\* raises ValueError unless there is exactly one ':' ; int(hour_str) raises
\* on the empty string; minute = int(minute_str) if minute_str else 0
HourMinuteOfToken(numeric_part) ==
    LET hour_str == SplitHead(numeric_part, ":")
        minute_str == SplitRest(numeric_part, ":")
    IN IF CountChar(numeric_part, ":") # 1 THEN Raised
       ELSE IF IntRaises(hour_str) THEN Raised
       ELSE Parsed(StrToInt(hour_str),
                   IF Len(minute_str) = 0 THEN 0 ELSE StrToInt(minute_str))

ParseTime(desired_time) ==
    LET clean_time == Lower(Strip(desired_time))
        am_indicator == AmIndicator(clean_time)
        pm_indicator == PmIndicator(clean_time)
        numeric_part == NumericPart(clean_time)
        hm == IF Contains(numeric_part, <<":">>)
              THEN HourMinuteOfToken(numeric_part)
              ELSE HourOfToken(numeric_part)
    IN IF hm.kind = "error" THEN Raised
       ELSE Parsed(HourCorrection(hm.hour, am_indicator, pm_indicator), hm.minute)

----------------------------------------------------------------------------
(* CourtBooker._select_court, the target string of the one-hour window      *)

\* start_hour, end_hour = (start_hour + 1) % 24, each shown with its period;
\* an hour below 12 is shown as it is (0 stays 0), an hour from 12 on as
\* hour % 12, with 12 for 0
TargetHour12(hour) ==
    IF hour < 12 THEN hour
    ELSE IF hour % 12 # 0 THEN hour % 12 ELSE 12

TargetPeriod(hour) == IF hour < 12 THEN s_am ELSE s_pm

\* f"{start_hour}:00 {start_period} - {end_hour}:00 {end_period}"
TargetTimeSlot(start_hour) ==
    LET end_hour == (start_hour + 1) % 24
    IN IntToStr(TargetHour12(start_hour)) \o <<":", "0", "0", " ">>
         \o TargetPeriod(start_hour) \o <<" ", "-", " ">>
         \o IntToStr(TargetHour12(end_hour)) \o <<":", "0", "0", " ">>
         \o TargetPeriod(end_hour)

----------------------------------------------------------------------------
(* is_matching_time_slot                                                    *)

\* start_period = "am" if "am" in start_time else "pm": start_time is the
\* whole first argument, lower-cased and without blanks
StartPeriod(start_time) == IF Contains(start_time, s_am) THEN s_am ELSE s_pm

\* the text int() is applied to
StartHourStr(start_time) ==
    IF Contains(start_time, <<":">>) THEN SplitHead(start_time, ":")
    ELSE SelectSeq(start_time, IsDigit)

To24(hour, period) ==
    IF period = s_pm /\ hour < 12 THEN hour + 12
    ELSE IF period = s_am /\ hour = 12 THEN 0
    ELSE hour

To12(hour) ==
    LET h == IF hour <= 12 THEN hour ELSE hour - 12
    IN IF h = 0 THEN 12 ELSE h

\* f"{start_hour_12}:00{start_period}" in normalized_range.split("-")[0]
StartOnlyMatches(pattern, normalized_range) ==
    Contains(SplitHead(normalized_range, "-"), pattern)

is_matching_time_slot(start_time_str, time_range_str) ==
    LET start_time == RemoveSpaces(Lower(start_time_str))
        time_range == RemoveSpaces(Lower(time_range_str))
        start_period == StartPeriod(start_time)
        start_hour == To24(StrToInt(StartHourStr(start_time)), start_period)
        end_hour == (start_hour + 1) % 24
        start_hour_12 == To12(start_hour)
        end_hour_12 == To12(end_hour)
        end_period == IF end_hour < 12 THEN s_am ELSE s_pm
        expected_pattern1 ==
            IntToStr(start_hour_12) \o <<":", "0", "0">> \o start_period \o <<"-">>
              \o IntToStr(end_hour_12) \o <<":", "0", "0">> \o end_period
        expected_pattern2 ==
            IntToStr(start_hour_12) \o start_period \o <<"-">>
              \o IntToStr(end_hour_12) \o end_period
        normalized_range == RemoveSpaces(time_range)
    IN \/ Contains(normalized_range, expected_pattern1)
       \/ Contains(normalized_range, expected_pattern2)
       \/ StartOnlyMatches(IntToStr(start_hour_12) \o <<":", "0", "0">> \o start_period,
                           normalized_range)

\* lines 404-413 of _select_court: the slot's text is stripped, its runs of
\* blanks squeezed, and compared with the target of the parsed start hour
SlotMatches(start_hour, slot_text) ==
    is_matching_time_slot(TargetTimeSlot(start_hour), JoinSplit(Strip(slot_text)))

----------------------------------------------------------------------------
(* The labels of the booking page: the one-hour window starting at hour h,  *)
(* 12-hour clock, hour 0 shown as 12 am and hour 12 as 12 pm                *)

Clock12(h) == IF h % 12 = 0 THEN 12 ELSE h % 12

ClockPeriod(h) == IF h < 12 THEN s_am ELSE s_pm

\* form 1: "6:00 pm - 7:00 pm"      form 2: "6pm-7pm"
WindowLabel(h, form) ==
    LET e == (h + 1) % 24
    IN IF form = 1
       THEN IntToStr(Clock12(h)) \o <<":", "0", "0", " ">> \o ClockPeriod(h)
              \o <<" ", "-", " ">>
              \o IntToStr(Clock12(e)) \o <<":", "0", "0", " ">> \o ClockPeriod(e)
       ELSE IntToStr(Clock12(h)) \o ClockPeriod(h) \o <<"-">>
              \o IntToStr(Clock12(e)) \o ClockPeriod(e)

Hours == 0..23

----------------------------------------------------------------------------
(* CourtBooker._select_court                                                *)

s_badminton == <<"b", "a", "d", "m", "i", "n", "t", "o", "n">>
s_pickle == <<"p", "i", "c", "k", "l", "e">>
s_BookNow == <<"B", "o", "o", "k", " ", "N", "o", "w">>
s_Unavailable == <<"U", "n", "a", "v", "a", "i", "l", "a", "b", "l", "e">>

MaxBlocks == 2
MaxSlots == 2
MaxCartItems == 2

\* the booking sections: hour is the start hour config time asks for
\* (-1: the time cannot be read), kept beside the text it is written as
Configs ==
    { [time |-> <<"2", ":", "0", "0", " ", "P", "M">>, hour |-> 14, facility |-> <<"B", "a", "d", "m", "i", "n", "t", "o", "n">>, court_number |-> <<>>],
      [time |-> <<"2", ":", "0", "0", " ", "P", "M">>, hour |-> 14, facility |-> <<"B", "a", "d", "m", "i", "n", "t", "o", "n">>, court_number |-> <<"2">>],
      [time |-> <<"2", ":", "0", "0", " ", "P", "M">>, hour |-> 14, facility |-> <<"T", "e", "n", "n", "i", "s">>, court_number |-> <<>>],
      [time |-> <<":", "3", "0">>, hour |-> -1, facility |-> <<"B", "a", "d", "m", "i", "n", "t", "o", "n">>, court_number |-> <<>>],
      [time |-> <<"e", "v", "e", "n", "i", "n", "g">>, hour |-> -1, facility |-> <<"B", "a", "d", "m", "i", "n", "t", "o", "n">>, court_number |-> <<>>] }

\* the <a data-tooltip=...> slots of a block: hour is the start hour of the
\* window the text denotes
Slots ==
    { [hour |-> 12, text |-> WindowLabel(12, 1), tooltip |-> s_BookNow],
      [hour |-> 14, text |-> WindowLabel(14, 1), tooltip |-> s_BookNow] }

\* a slot that is shown as taken
UnavailableSlot == [hour |-> 14, text |-> WindowLabel(14, 1), tooltip |-> s_Unavailable]

\* the slot of the hour after midnight
MidnightSlot == [hour |-> 0, text |-> WindowLabel(0, 1), tooltip |-> s_BookNow]

SeqsUpTo(S, n) == UNION {[1..k -> S] : k \in 0..n}

\* the h2/span title and the result-header__description of a block;
\* header FALSE: the block lacks one of them (NoSuchElementException)
Headers ==
    { [title |-> <<"B", "a", "d", "m", "i", "n", "t", "o", "n", " ", "C", "o", "u", "r", "t", " ", "1">>, description |-> <<>>],
      [title |-> <<"B", "a", "d", "m", "i", "n", "t", "o", "n", " ", "2">>, description |-> <<>>],
      [title |-> <<"T", "e", "n", "n", "i", "s", " ", "C", "o", "u", "r", "t", " ", "1">>, description |-> <<"G", "y", "m", " ", "B">>] }

Blocks ==
    {[header |-> TRUE, title |-> h.title, description |-> h.description, slots |-> sl] :
        h \in Headers, sl \in SeqsUpTo(Slots, MaxSlots)}
    \cup {[header |-> FALSE, title |-> <<>>, description |-> <<>>,
           slots |-> <<[hour |-> 14, text |-> WindowLabel(14, 1), tooltip |-> s_BookNow]>>]}
    \cup {[header |-> TRUE, title |-> h.title, description |-> h.description,
           slots |-> <<UnavailableSlot>>] : h \in Headers}
    \cup {[header |-> TRUE, title |-> <<"B", "a", "d", "m", "i", "n", "t", "o", "n", " ", "2">>,
           description |-> <<>>, slots |-> <<MidnightSlot>>]}

Pages ==
    {[shown |-> TRUE, blocks |-> bs] : bs \in SeqsUpTo(Blocks, MaxBlocks)}
    \cup {[shown |-> FALSE, blocks |-> <<>>]}

\* court_text = (court_title + " " + court_description).lower()
CourtText(block) == Lower(block.title \o <<" ">> \o block.description)

\* facility_type = self.config['booking']['facility'].lower()
FacilityType(cfg) == Lower(cfg.facility)

\* lines 395-397: the conditions under which the slots of a block are looked at
BlockExamined(block, facility_type) ==
    /\ Contains(CourtText(block), facility_type)
    /\ \/ Contains(facility_type, s_badminton)
       \/ Contains(facility_type, s_pickle)
    /\ \/ Contains(CourtText(block), s_badminton)
       \/ Contains(CourtText(block), s_pickle)

\* lines 399-413: a slot the XPath finds (its data-tooltip contains 'Book
\* Now'), whose status is "success" and whose text matches the target
SlotTaken(slot, start_hour) ==
    /\ Contains(slot.tooltip, s_BookNow)
    /\ slot.tooltip # s_Unavailable
    /\ SlotMatches(start_hour, slot.text)

\* The three tests above for the values the configurations and the pages
\* hold, evaluated once
ParsedTime == [cfg \in Configs |-> ParseTime(cfg.time)]

ExaminedFor ==
    [h \in Headers |-> {cfg \in Configs : BlockExamined(h, FacilityType(cfg))}]

TakenFor ==
    [slot \in Slots \cup {UnavailableSlot, MidnightSlot} |->
        {cfg \in Configs : /\ ParsedTime[cfg].kind = "ok"
                           /\ SlotTaken(slot, ParsedTime[cfg].hour)}]

HeaderOf(block) == [title |-> block.title, description |-> block.description]

\* lines 403-416: the index of the first slot taken, 0 when there is none
FirstSlotTaken(block, cfg) ==
    IF \E j \in 1..Len(block.slots) : cfg \in TakenFor[block.slots[j]]
    THEN CHOOSE j \in 1..Len(block.slots) :
            /\ cfg \in TakenFor[block.slots[j]]
            /\ \A k \in 1..(j - 1) : cfg \notin TakenFor[block.slots[k]]
    ELSE 0

\* best_slot before its first assignment
Unbound == <<0, 0>>

\* lines 384-420: the loop over result_contents from block i on; a block
\* without title or description is skipped (NoSuchElementException);
\* best_slot is assigned at every block that has a slot taken, and the break
\* leaves the loop over the slots only
RECURSIVE CourtLoop(_, _, _, _)
CourtLoop(blocks, i, best_slot, cfg) ==
    IF i > Len(blocks) THEN best_slot
    ELSE LET block == blocks[i]
             j == IF block.header /\ cfg \in ExaminedFor[HeaderOf(block)]
                  THEN FirstSlotTaken(block, cfg) ELSE 0
         IN CourtLoop(blocks, i + 1, IF j # 0 THEN <<i, j>> ELSE best_slot, cfg)

BestSlot(cfg, pg) == CourtLoop(pg.blocks, 1, Unbound, cfg)

\* the variables of the calls a specification does not make
ParseIdle ==
    /\ ptIn = [h |-> -1, mm |-> -1, extra |-> FALSE, ind |-> "none", style |-> "tight"]
    /\ ptText = <<>>
    /\ ptOut = NotRun
    /\ ptBack = NotRun

MatchIdle ==
    /\ mHour = 0
    /\ mLabelHour = 0
    /\ mForm = 1
    /\ mResult = "none"

SelectIdle ==
    /\ config = [time |-> <<>>, hour |-> -1, facility |-> <<>>, court_number |-> <<>>]
    /\ page = [shown |-> FALSE, blocks |-> <<>>]
    /\ clicked = <<>>
    /\ cart = 0
    /\ raised = ""
    /\ ret = "done"

BookIdle ==
    /\ pc = "idle"
    /\ calls = <<>>
    /\ rets = <<>>
    /\ logged_in = FALSE
    /\ logouts = <<>>
    /\ quits = 0
    /\ pending = "none"
    /\ returned = "none"
    /\ login_way = "none"

\* the empty dict
EmptyDict == [x \in {} |-> 0]

FindIdle ==
    /\ fIn = [blocks |-> <<>>, facility_type |-> <<>>, court_number |-> <<>>, time_formats |-> <<>>]
    /\ fOut = [kind |-> "idle"]

PoolIdle ==
    /\ users = <<>>
    /\ max_workers = 0
    /\ submitted = 0
    /\ queue = <<>>
    /\ running = {}
    /\ outcome = EmptyDict
    /\ future = EmptyDict
    /\ yielded = {}
    /\ results = EmptyDict
    /\ processed = EmptyDict
    /\ mainpc = "idle"

ConfigIdle ==
    /\ sections = <<>>
    /\ valid_users = [kind |-> "idle"]
    /\ loaded = EmptyDict

Init ==
    /\ config \in Configs
    /\ page \in Pages
    /\ clicked = <<>>
    /\ cart = 0
    /\ raised = ""
    /\ ret = "none"
    /\ ParseIdle
    /\ MatchIdle
    /\ BookIdle
    /\ FindIdle
    /\ PoolIdle
    /\ ConfigIdle

\* OnException answering True
OnExceptionTrue == "True"

\* lines 442-445: except Exception: ... return False
OnException == "False"

\* line 357: _parse_time raises; lines 442-445 return False
CourtTimeError ==
    /\ ret = "none"
    /\ ParsedTime[config].kind = "error"
    /\ raised' = "ValueError"
    /\ ret' = OnException
    /\ UNCHANGED <<config, page, clicked, cart>>

\* line 377: no dateblock appears, wait.until raises; lines 442-445
CourtTimeout ==
    /\ ret = "none"
    /\ ParsedTime[config].kind = "ok"
    /\ ~page.shown
    /\ raised' = "TimeoutException"
    /\ ret' = OnException
    /\ UNCHANGED <<config, page, clicked, cart>>

\* line 422 reads best_slot, which no block has assigned: UnboundLocalError,
\* caught at line 442
CourtNoSlot ==
    /\ ret = "none"
    /\ ParsedTime[config].kind = "ok"
    /\ page.shown
    /\ BestSlot(config, page) = Unbound
    /\ raised' = "UnboundLocalError"
    /\ ret' = OnException
    /\ UNCHANGED <<config, page, clicked, cart>>

\* CartVerdict accepting two items in the cart
CartVerdictTwo(n) == IF n > 2 THEN "False" ELSE "True"

\* lines 433-437: if len(cart_items) > 1: return False, else return True
CartVerdict(n) == IF n > 1 THEN "False" ELSE "True"

\* lines 422-437: best_slot is clicked, then the cart items are counted
CourtClick ==
    /\ ret = "none"
    /\ ParsedTime[config].kind = "ok"
    /\ page.shown
    /\ BestSlot(config, page) # Unbound
    /\ clicked' = Append(clicked, BestSlot(config, page))
    /\ \E n \in 0..MaxCartItems :
          /\ cart' = n
          /\ ret' = CartVerdict(n)
    /\ UNCHANGED <<config, page, raised>>

\* one call of _select_court
SelectCourt == CourtTimeError \/ CourtTimeout \/ CourtNoSlot \/ CourtClick

SelectCourtTimeError ==
    /\ CourtTimeError
    /\ UNCHANGED parseVars
    /\ UNCHANGED matchVars
    /\ UNCHANGED bookVars
    /\ UNCHANGED findVars
    /\ UNCHANGED poolVars
    /\ UNCHANGED configVars

SelectCourtTimeout ==
    /\ CourtTimeout
    /\ UNCHANGED parseVars
    /\ UNCHANGED matchVars
    /\ UNCHANGED bookVars
    /\ UNCHANGED findVars
    /\ UNCHANGED poolVars
    /\ UNCHANGED configVars

SelectCourtNoSlot ==
    /\ CourtNoSlot
    /\ UNCHANGED parseVars
    /\ UNCHANGED matchVars
    /\ UNCHANGED bookVars
    /\ UNCHANGED findVars
    /\ UNCHANGED poolVars
    /\ UNCHANGED configVars

SelectCourtClick ==
    /\ CourtClick
    /\ UNCHANGED parseVars
    /\ UNCHANGED matchVars
    /\ UNCHANGED bookVars
    /\ UNCHANGED findVars
    /\ UNCHANGED poolVars
    /\ UNCHANGED configVars

Next ==
    \/ SelectCourtTimeError
    \/ SelectCourtTimeout
    \/ SelectCourtNoSlot
    \/ SelectCourtClick

Spec == Init /\ [][Next]_vars

----------------------------------------------------------------------------
(* CourtBooker.execute_booking                                              *)

MaxBookingBlocks == 1

\* the results pages the booking flow is run on
BookingPages == {pg \in Pages : Len(pg.blocks) <= MaxBookingBlocks}

\* AfterStep going on to the next step whatever the step returned
AfterStepAlways(ok, next) == next

\* lines 171-180: if not self._step(): return False
AfterStep(ok, next) == IF ok THEN next ELSE "finally"

InitBooking ==
    /\ config \in Configs
    /\ page \in BookingPages
    /\ clicked = <<>>
    /\ cart = 0
    /\ raised = ""
    /\ ret = "none"
    /\ pc = "login"
    /\ calls = <<>>
    /\ rets = <<>>
    /\ logged_in = FALSE
    /\ logouts = <<>>
    /\ quits = 0
    /\ pending = "none"
    /\ returned = "none"
    /\ login_way = "none"
    /\ ParseIdle
    /\ MatchIdle
    /\ FindIdle
    /\ PoolIdle
    /\ ConfigIdle

\* ReturnValue answering True whatever the last step returned
ReturnValueTrue(ok) == "True"

\* lines 172-182: return False after a step that returned False, return True
\* after the last one
ReturnValue(ok) == IF ok THEN "True" ELSE "False"

\* a step that ended ok: where execute_booking goes and what it is to return.
\* No step raises (each catches every Exception of its body and returns
\* False), so the except branch of lines 183-185 is never entered.
StepTaken(name, ok, next) ==
    /\ calls' = Append(calls, name)
    /\ rets' = Append(rets, ok)
    /\ pc' = AfterStep(ok, next)
    /\ pending' = IF pc' = "finally" THEN ReturnValue(ok) ELSE pending

\* the ways _login ends (lines 190-254): an exception before line 246 (the
\* page, the form, the session warning), the cart clearing failing (lines
\* 242-244, the login goes on), or nothing failing
LoginWays == {"form failed", "cart failed", "ok"}

\* lines 246-249 are reached, _login returns True
LoginSucceeds(way) == way # "form failed"

\* line 171, _login (lines 190-254): every exception is caught and gives
\* False; logged_in is set at line 246, after which nothing fails
BookLogin ==
    /\ pc = "login"
    /\ \E way \in LoginWays :
          /\ login_way' = way
          /\ StepTaken("login", LoginSucceeds(way), "navigate")
          /\ logged_in' = (logged_in \/ LoginSucceeds(way))
    /\ UNCHANGED <<logouts, quits, returned>>
    /\ UNCHANGED <<selectVars, parseVars, matchVars, findVars, poolVars, configVars>>

\* line 173, _navigate_to_booking (lines 256-274)
BookNavigate ==
    /\ pc = "navigate"
    /\ \E ok \in BOOLEAN : StepTaken("navigate", ok, "date")
    /\ UNCHANGED <<logged_in, logouts, quits, returned, login_way>>
    /\ UNCHANGED <<selectVars, parseVars, matchVars, findVars, poolVars, configVars>>

\* line 175, _select_date (lines 276-324)
BookSelectDate ==
    /\ pc = "date"
    /\ \E ok \in BOOLEAN : StepTaken("select_date", ok, "court")
    /\ UNCHANGED <<logged_in, logouts, quits, returned, login_way>>
    /\ UNCHANGED <<selectVars, parseVars, matchVars, findVars, poolVars, configVars>>

\* line 177, _select_court
BookSelectCourt ==
    /\ pc = "court"
    /\ SelectCourt
    /\ StepTaken("select_court", ret' = "True", "finalize")
    /\ UNCHANGED <<logged_in, logouts, quits, returned, login_way>>
    /\ UNCHANGED <<parseVars, matchVars, findVars, poolVars, configVars>>

\* lines 179-181, _finalize_booking (lines 518-613)
BookFinalize ==
    /\ pc = "finalize"
    /\ \E ok \in BOOLEAN : StepTaken("finalize", ok, "finally")
    /\ UNCHANGED <<logged_in, logouts, quits, returned, login_way>>
    /\ UNCHANGED <<selectVars, parseVars, matchVars, findVars, poolVars, configVars>>

\* the ways _logout ends (lines 615-693): the user menu, the direct logout
\* link, the navigation to the login page, none of them (lines 682-688,
\* returns False), or an exception other than TimeoutException and
\* NoSuchElementException in the first attempt (lines 691-693, returns False)
LogoutWays == {"menu", "link", "navigation", "failed", "error"}

\* LogoutConfirms with logged_in cleared however _logout ends
LogoutConfirmsAlways(how) == TRUE

\* lines 646-647, 665-666, 679-681: self.logged_in = False; return True
LogoutConfirms(how) == how \in {"menu", "link", "navigation"}

\* AfterFinally with driver.quit() inside the if of line 186
AfterFinallyInsideIf(was_logged_in) == IF was_logged_in THEN "quit" ELSE "done"

\* lines 186-188: driver.quit() follows the if, whatever logged_in was
AfterFinally(was_logged_in) == "quit"

\* lines 186-187: if self.logged_in: self._logout()
BookLogout ==
    /\ pc = "finally"
    /\ logged_in
    /\ \E how \in LogoutWays :
          /\ logouts' = Append(logouts, how)
          /\ logged_in' = ~LogoutConfirms(how)
    /\ pc' = AfterFinally(logged_in)
    /\ UNCHANGED <<calls, rets, quits, pending, returned, login_way>>
    /\ UNCHANGED <<selectVars, parseVars, matchVars, findVars, poolVars, configVars>>

BookNoLogout ==
    /\ pc = "finally"
    /\ ~logged_in
    /\ pc' = AfterFinally(logged_in)
    /\ UNCHANGED <<calls, rets, logged_in, logouts, quits, pending, returned, login_way>>
    /\ UNCHANGED <<selectVars, parseVars, matchVars, findVars, poolVars, configVars>>

\* line 188: self.driver.quit(), then the pending return value is returned
BookQuit ==
    /\ pc = "quit"
    /\ quits' = quits + 1
    /\ pc' = "done"
    /\ returned' = pending
    /\ UNCHANGED <<calls, rets, logged_in, logouts, pending, login_way>>
    /\ UNCHANGED <<selectVars, parseVars, matchVars, findVars, poolVars, configVars>>

NextBooking ==
    \/ BookLogin
    \/ BookNavigate
    \/ BookSelectDate
    \/ BookSelectCourt
    \/ BookFinalize
    \/ BookLogout
    \/ BookNoLogout
    \/ BookQuit

SpecBooking == InitBooking /\ [][NextBooking]_vars

----------------------------------------------------------------------------
(* CourtBooker._find_matching_courts                                        *)

s_success == <<"s", "u", "c", "c", "e", "s", "s">>
SuccessClass == <<"b", "u", "t", "t", "o", "n", " ", "c", "a", "r", "t", "-", "b", "u", "t", "t", "o", "n", " ", "s", "u", "c", "c", "e", "s", "s">>
ErrorClass == <<"b", "u", "t", "t", "o", "n", " ", "c", "a", "r", "t", "-", "b", "u", "t", "t", "o", "n", " ", "e", "r", "r", "o", "r">>

\* the <a class="button cart-button ..."> slots of a block
FindSlots ==
    { [text |-> WindowLabel(12, 1), class |-> SuccessClass],
      [text |-> WindowLabel(14, 1), class |-> SuccessClass] }

\* a slot whose class does not hold "success"
SoldSlot == [text |-> WindowLabel(14, 1), class |-> ErrorClass]

CourtOneHeader == [title |-> <<"B", "a", "d", "m", "i", "n", "t", "o", "n", " ", "C", "o", "u", "r", "t", " ", "1">>, description |-> <<>>]
PickleHeader == [title |-> <<"B", "a", "d", "m", "i", "n", "t", "o", "n", "/", "P", "i", "c", "k", "l", "e", "b", "a", "l", "l", " ", "C", "o", "u", "r", "t">>, description |-> <<>>]

FindHeaders == Headers \cup {CourtOneHeader, PickleHeader}

\* the result-content elements handed to _find_matching_courts
FindBlocks ==
    {[header |-> TRUE, title |-> h.title, description |-> h.description, slots |-> sl] :
        h \in Headers, sl \in SeqsUpTo(FindSlots, MaxSlots)}
    \cup {[header |-> TRUE, title |-> PickleHeader.title, description |-> <<>>,
           slots |-> <<[text |-> WindowLabel(14, 1), class |-> SuccessClass]>>]}
    \cup {[header |-> TRUE, title |-> CourtOneHeader.title, description |-> <<>>,
           slots |-> <<SoldSlot>>],
          [header |-> TRUE, title |-> CourtOneHeader.title, description |-> <<>>,
           slots |-> <<SoldSlot, [text |-> WindowLabel(14, 1), class |-> SuccessClass]>>]}
    \cup {[header |-> FALSE, title |-> <<>>, description |-> <<>>,
           slots |-> <<[text |-> WindowLabel(14, 1), class |-> SuccessClass]>>]}

\* the time_formats lists: one label, and the same label written twice
OneFormat == <<WindowLabel(14, 1)>>
TwoFormats == <<<<"2", ":", "0", "0", " ", "P", "M", " ", "-", " ", "3", ":", "0", "0", " ", "P", "M">>, WindowLabel(14, 1)>>

\* the facility_type, court_number and time_formats arguments
FindArgs ==
    { [facility_type |-> s_badminton, court_number |-> <<>>, time_formats |-> OneFormat],
      [facility_type |-> s_badminton, court_number |-> <<"2">>, time_formats |-> TwoFormats],
      [facility_type |-> <<"t", "e", "n", "n", "i", "s">>, court_number |-> <<>>, time_formats |-> OneFormat],
      [facility_type |-> s_pickle, court_number |-> <<>>, time_formats |-> OneFormat],
      [facility_type |-> <<"b", "a", "d", "m", "i", "n", "t", "o", "n", "/", "p", "i", "c", "k", "l", "e">>, court_number |-> <<>>, time_formats |-> OneFormat],
      [facility_type |-> <<"B", "a", "d", "m", "i", "n", "t", "o", "n">>, court_number |-> <<>>, time_formats |-> OneFormat] }

ArgsOf(in) ==
    [facility_type |-> in.facility_type, court_number |-> in.court_number,
     time_formats |-> in.time_formats]

\* NameScore counting the court number even when none is given
NameScoreAnyNumber(court_text, facility_type, court_number) ==
    IF Contains(court_text, facility_type)
    THEN 100
         + (IF Contains(court_text, facility_type \o <<" ">> \o court_number)
            THEN 50 ELSE 0)
         + (IF Contains(facility_type, s_badminton) /\ Contains(court_text, s_badminton)
            THEN 30 ELSE 0)
         + (IF Contains(facility_type, s_pickle) /\ Contains(court_text, s_pickle)
            THEN 30 ELSE 0)
    ELSE 0

\* NameScore without the test of the facility type
NameScoreNoFacility(court_text, facility_type, court_number) ==
    100
    + (IF court_number # <<>>
          /\ Contains(court_text, facility_type \o <<" ">> \o court_number)
       THEN 50 ELSE 0)
    + (IF Contains(facility_type, s_badminton) /\ Contains(court_text, s_badminton)
       THEN 30 ELSE 0)
    + (IF Contains(facility_type, s_pickle) /\ Contains(court_text, s_pickle)
       THEN 30 ELSE 0)

\* lines 477-486: score as it stands at line 488
NameScore(court_text, facility_type, court_number) ==
    IF Contains(court_text, facility_type)
    THEN 100
         + (IF court_number # <<>>
               /\ Contains(court_text, facility_type \o <<" ">> \o court_number)
            THEN 50 ELSE 0)
         + (IF Contains(facility_type, s_badminton) /\ Contains(court_text, s_badminton)
            THEN 30 ELSE 0)
         + (IF Contains(facility_type, s_pickle) /\ Contains(court_text, s_pickle)
            THEN 30 ELSE 0)
    ELSE 0

\* lines 495-500: the index of the first time format found in the slot text,
\* 0 when there is none
FormatLoop(slot_text, time_formats) ==
    IF \E k \in 1..Len(time_formats) : Contains(Lower(slot_text), Lower(time_formats[k]))
    THEN CHOOSE k \in 1..Len(time_formats) :
            /\ Contains(Lower(slot_text), Lower(time_formats[k]))
            /\ \A l \in 1..(k - 1) : ~Contains(Lower(slot_text), Lower(time_formats[l]))
    ELSE 0

\* lines 494-500: the slot is appended to available_slots
SlotCollected(slot, time_formats) ==
    /\ Contains(slot.class, s_success)
    /\ FormatLoop(Strip(slot.text), time_formats) # 0

\* The two tests above for the values the arguments hold, evaluated once
NameScoreOf ==
    [h \in FindHeaders |->
        [a \in FindArgs |-> NameScore(CourtText(h), a.facility_type, a.court_number)]]

CollectedFor ==
    [slot \in FindSlots \cup {SoldSlot} |->
        {a \in FindArgs : SlotCollected(slot, a.time_formats)}]

\* lines 493-500: available_slots, as pairs of the slot (its index) and its text
RECURSIVE SlotLoop(_, _, _, _)
SlotLoop(slots, j, available_slots, a) ==
    IF j > Len(slots) THEN available_slots
    ELSE SlotLoop(slots, j + 1,
                  IF a \in CollectedFor[slots[j]]
                  THEN Append(available_slots, <<j, Strip(slots[j].text)>>)
                  ELSE available_slots,
                  a)

\* Qualifies without the test
QualifiesAlways(available_slots) == TRUE

\* line 502: if available_slots:
Qualifies(available_slots) == available_slots # <<>>

\* d[k] = v
Put(d, k, v) == [x \in DOMAIN d \cup {k} |-> IF x = k THEN v ELSE d[x]]

\* lines 472-514: the loop over result_contents
RECURSIVE FindLoop(_, _, _, _)
FindLoop(blocks, i, court_matches, a) ==
    IF i > Len(blocks) THEN court_matches
    ELSE IF ~blocks[i].header THEN FindLoop(blocks, i + 1, court_matches, a)
    ELSE LET score == NameScoreOf[HeaderOf(blocks[i])][a]
             available_slots == SlotLoop(blocks[i].slots, 1, <<>>, a)
         IN IF score > 0 /\ Qualifies(available_slots)
            THEN FindLoop(blocks, i + 1,
                          Put(court_matches, blocks[i].title,
                              [div |-> i, score |-> score + 50, slots |-> available_slots]),
                          a)
            ELSE FindLoop(blocks, i + 1, court_matches, a)

InitFind ==
    /\ \E bs \in SeqsUpTo(FindBlocks, MaxBlocks), a \in FindArgs :
          fIn = [blocks |-> bs, facility_type |-> a.facility_type,
                 court_number |-> a.court_number, time_formats |-> a.time_formats]
    /\ fOut = [kind |-> "none"]
    /\ ParseIdle
    /\ MatchIdle
    /\ SelectIdle
    /\ BookIdle
    /\ PoolIdle
    /\ ConfigIdle

\* one call of _find_matching_courts: scores holds the score of each block at
\* line 488 (-1: the block raised NoSuchElementException), examined the blocks
\* whose slots were fetched at line 489
CallFindMatchingCourts ==
    /\ fOut.kind = "none"
    /\ LET a == ArgsOf(fIn)
           n == Len(fIn.blocks)
           scores == [i \in 1..n |-> IF fIn.blocks[i].header
                                     THEN NameScoreOf[HeaderOf(fIn.blocks[i])][a]
                                     ELSE -1]
       IN fOut' = [kind |-> "ok",
                   scores |-> scores,
                   examined |-> {i \in 1..n : scores[i] > 0},
                   court_matches |-> FindLoop(fIn.blocks, 1, EmptyDict, a)]
    /\ UNCHANGED fIn
    /\ UNCHANGED <<parseVars, matchVars, selectVars, bookVars, poolVars, configVars>>

NextFind == CallFindMatchingCourts

SpecFind == InitFind /\ [][NextFind]_vars

----------------------------------------------------------------------------
(* main and process_user                                                    *)

MaxUsers == 3
MaxWorkers == 2

\* how CourtBooker(...) and execute_booking() end for a user: the booking
\* returns True or False, the constructor raises, or the booking raises
Outcomes == {"True", "False", "init raises", "booking raises"}

\* process_user answering success when an exception was raised
ProcessUserOptimistic(user, o) ==
    IF o = "False" THEN <<user, FALSE, "">> ELSE <<user, TRUE, "">>

\* lines 721-733: the tuple process_user returns
ProcessUser(user, o) ==
    IF o = "True" THEN <<user, TRUE, "">>
    ELSE IF o = "False" THEN <<user, FALSE, "">>
    ELSE <<user, FALSE, "Error">>

UserSet == {users[i] : i \in 1..Len(users)}

InitPool ==
    /\ \E n \in 0..MaxUsers : users = [i \in 1..n |-> i]
    /\ max_workers \in 1..MaxWorkers
    /\ submitted = 0
    /\ queue = <<>>
    /\ running = {}
    /\ outcome = EmptyDict
    /\ future = EmptyDict
    /\ yielded = {}
    /\ results = EmptyDict
    /\ processed = [u \in UserSet |-> 0]
    /\ mainpc = "start"
    /\ ParseIdle
    /\ MatchIdle
    /\ SelectIdle
    /\ BookIdle
    /\ FindIdle
    /\ ConfigIdle

\* lines 745-748: if not users: return
MainNoUsers ==
    /\ mainpc = "start"
    /\ users = <<>>
    /\ mainpc' = "done"
    /\ UNCHANGED <<users, max_workers, submitted, queue, running, outcome, future,
                   yielded, results, processed>>
    /\ UNCHANGED <<parseVars, matchVars, selectVars, bookVars, findVars, configVars>>

\* lines 750-755: results = {} and the executor is created
MainStart ==
    /\ mainpc = "start"
    /\ users # <<>>
    /\ results' = EmptyDict
    /\ mainpc' = "submit"
    /\ UNCHANGED <<users, max_workers, submitted, queue, running, outcome, future,
                   yielded, processed>>
    /\ UNCHANGED <<parseVars, matchVars, selectVars, bookVars, findVars, configVars>>

\* lines 757-760: executor.submit(process_user, user, args) for the next user
MainSubmit ==
    /\ mainpc = "submit"
    /\ submitted < Len(users)
    /\ submitted' = submitted + 1
    /\ queue' = Append(queue, users[submitted + 1])
    /\ future' = Put(future, users[submitted + 1], [state |-> "pending"])
    /\ mainpc' = IF submitted + 1 = Len(users) THEN "collect" ELSE "submit"
    /\ UNCHANGED <<users, max_workers, running, outcome, yielded, results, processed>>
    /\ UNCHANGED <<parseVars, matchVars, selectVars, bookVars, findVars, configVars>>

\* a worker thread of the executor, of which there are at most max_workers,
\* takes the next work item and enters process_user (line 721)
WorkerTake ==
    /\ queue # <<>>
    /\ Cardinality(running) < max_workers
    /\ running' = running \cup {Head(queue)}
    /\ queue' = Tail(queue)
    /\ processed' = [processed EXCEPT ![Head(queue)] = @ + 1]
    /\ UNCHANGED <<users, max_workers, submitted, outcome, future, yielded, results, mainpc>>
    /\ UNCHANGED <<parseVars, matchVars, selectVars, bookVars, findVars, configVars>>

\* lines 721-733: process_user returns and its future is done
WorkerFinish ==
    /\ \E user \in running, o \in Outcomes :
          /\ outcome' = Put(outcome, user, o)
          /\ future' = [future EXCEPT ![user] = [state |-> "done", result |-> ProcessUser(user, o)]]
          /\ running' = running \ {user}
    /\ UNCHANGED <<users, max_workers, submitted, queue, yielded, results, processed, mainpc>>
    /\ UNCHANGED <<parseVars, matchVars, selectVars, bookVars, findVars, configVars>>

\* lines 763-769: as_completed yields a future that is done and has not been
\* yielded; results[user] = (success, error)
MainCollect ==
    /\ mainpc = "collect"
    /\ \E u \in DOMAIN future :
          /\ u \notin yielded
          /\ future[u].state = "done"
          /\ yielded' = yielded \cup {u}
          /\ results' = Put(results, future[u].result[1],
                            <<future[u].result[2], future[u].result[3]>>)
    /\ UNCHANGED <<users, max_workers, submitted, queue, running, outcome, future,
                   processed, mainpc>>
    /\ UNCHANGED <<parseVars, matchVars, selectVars, bookVars, findVars, configVars>>

\* lines 755-779: every future was yielded, the with block ends, the summary
\* is printed
MainDone ==
    /\ mainpc = "collect"
    /\ yielded = DOMAIN future
    /\ mainpc' = "done"
    /\ UNCHANGED <<users, max_workers, submitted, queue, running, outcome, future,
                   yielded, results, processed>>
    /\ UNCHANGED <<parseVars, matchVars, selectVars, bookVars, findVars, configVars>>

NextPool ==
    \/ MainNoUsers
    \/ MainStart
    \/ MainSubmit
    \/ WorkerTake
    \/ WorkerFinish
    \/ MainCollect
    \/ MainDone

SpecPool == InitPool /\ [][NextPool]_vars

----------------------------------------------------------------------------
(* get_valid_users and CourtBooker._load_config                             *)

MaxSections == 4

s_LOGIN == <<"_", "L", "O", "G", "I", "N">>
s_BOOKING == <<"_", "B", "O", "O", "K", "I", "N", "G">>

\* the section names a config.ini may hold; configparser keeps their case
SectionNames ==
    { <<"A", "_", "L", "O", "G", "I", "N">>,
      <<"A", "_", "B", "O", "O", "K", "I", "N", "G">>,
      <<"B", "_", "L", "O", "G", "I", "N">>,
      <<"B", "_", "B", "O", "O", "K", "I", "N", "G">>,
      <<"A", "_", "L", "O", "G", "I", "N", "_", "L", "O", "G", "I", "N">>,
      <<"A", "_", "L", "O", "G", "I", "N", "_", "B", "O", "O", "K", "I", "N", "G">>,
      <<"a", "_", "l", "o", "g", "i", "n">>,
      <<"_", "L", "O", "G", "I", "N">>,
      <<"_", "B", "O", "O", "K", "I", "N", "G">> }

\* config.sections(): the sections in file order, each name once (configparser
\* refuses a file that holds a section twice)
SectionLists ==
    {sl \in SeqsUpTo(SectionNames, MaxSections) :
        \A i, j \in 1..Len(sl) : i # j => sl[i] # sl[j]}

\* str.endswith
EndsWith(s, suffix) ==
    /\ Len(s) >= Len(suffix)
    /\ SubSeq(s, Len(s) - Len(suffix) + 1, Len(s)) = suffix

\* line 703: user_prefix = section[:-6]
UserPrefix(section) == SubSeq(section, 1, Len(section) - 6)

\* HasBooking not looking for the section
HasBookingAlways(secs, user_prefix) == TRUE

\* line 704: f"{user_prefix}_BOOKING" in config.sections()
HasBooking(secs, user_prefix) ==
    \E i \in 1..Len(secs) : secs[i] = user_prefix \o s_BOOKING

\* lines 700-706: the loop over config.sections()
RECURSIVE UsersLoop(_, _, _)
UsersLoop(secs, i, found) ==
    IF i > Len(secs) THEN found
    ELSE IF EndsWith(secs[i], s_LOGIN) /\ HasBooking(secs, UserPrefix(secs[i]))
         THEN UsersLoop(secs, i + 1, Append(found, UserPrefix(secs[i])))
         ELSE UsersLoop(secs, i + 1, found)

\* lines 94-103: config.has_section for the two sections of the user
LoadConfig(secs, user_prefix) ==
    IF ~(\E i \in 1..Len(secs) : secs[i] = user_prefix \o s_LOGIN)
    THEN "missing login section"
    ELSE IF ~(\E i \in 1..Len(secs) : secs[i] = user_prefix \o s_BOOKING)
    THEN "missing booking section"
    ELSE "ok"

InitConfig ==
    /\ sections \in SectionLists
    /\ valid_users = [kind |-> "none"]
    /\ loaded = EmptyDict
    /\ ParseIdle
    /\ MatchIdle
    /\ SelectIdle
    /\ BookIdle
    /\ FindIdle
    /\ PoolIdle

\* lines 696-707: get_valid_users()
CallGetValidUsers ==
    /\ valid_users.kind = "none"
    /\ valid_users' = [kind |-> "ok", users |-> UsersLoop(sections, 1, <<>>)]
    /\ UNCHANGED <<sections, loaded>>
    /\ UNCHANGED <<parseVars, matchVars, selectVars, bookVars, findVars, poolVars>>

\* line 39: CourtBooker(user_prefix=user) loads the configuration of a user
\* that get_valid_users returned
CallLoadConfig ==
    /\ valid_users.kind = "ok"
    /\ \E i \in 1..Len(valid_users.users) :
          /\ valid_users.users[i] \notin DOMAIN loaded
          /\ loaded' = Put(loaded, valid_users.users[i],
                           LoadConfig(sections, valid_users.users[i]))
    /\ UNCHANGED <<sections, valid_users>>
    /\ UNCHANGED <<parseVars, matchVars, selectVars, bookVars, findVars, poolVars>>

NextConfig ==
    \/ CallGetValidUsers
    \/ CallLoadConfig

SpecConfig == InitConfig /\ [][NextConfig]_vars

----------------------------------------------------------------------------
(* The configured time strings _parse_time is applied to                    *)

\* h: the hour digits (-1: none); mm: the minutes (-1: no ':', -2: a ':'
\* with nothing after it); extra: a second ':00'; ind: the indicators;
\* style: how an indicator is written
TimeInputs ==
    {in \in [h : -1..23, mm : -2..59, extra : BOOLEAN,
             ind : {"none", "am", "pm", "ampm"},
             style : {"tight", "spaced", "upper", "dotted"}] :
        in.ind = "none" => in.style = "tight"}

TwoDigits(n) == IF n < 10 THEN <<"0">> \o IntToStr(n) ELSE IntToStr(n)

IndicatorText(which, style) ==
    CASE style = "tight" -> which
      [] style = "spaced" -> <<" ">> \o which
      [] style = "upper" -> <<" ">> \o <<IF which = s_am THEN "A" ELSE "P", "M", " ">>
      [] style = "dotted" -> <<" ", which[1], ".", which[2], ".">>

TimeText(in) ==
    (IF in.h = -1 THEN <<>> ELSE IntToStr(in.h))
      \o (IF in.mm = -1 THEN <<>>
          ELSE IF in.mm = -2 THEN <<":">> ELSE <<":">> \o TwoDigits(in.mm))
      \o (IF in.extra THEN <<":", "0", "0">> ELSE <<>>)
      \o (IF in.ind \in {"am", "ampm"} THEN IndicatorText(s_am, in.style) ELSE <<>>)
      \o (IF in.ind \in {"pm", "ampm"} THEN IndicatorText(s_pm, in.style) ELSE <<>>)

\* the canonical 12-hour rendering "H:MMam/pm" of an (hour, minute) pair
Render12(hour, minute) ==
    IntToStr(Clock12(hour)) \o <<":">> \o TwoDigits(minute) \o ClockPeriod(hour)

InitParse ==
    /\ ptIn \in TimeInputs
    /\ ptText = TimeText(ptIn)
    /\ ptOut = NotRun
    /\ ptBack = NotRun
    /\ MatchIdle
    /\ SelectIdle
    /\ BookIdle
    /\ FindIdle
    /\ PoolIdle
    /\ ConfigIdle

\* _parse_time(desired_time)
CallParseTime ==
    /\ ptOut = NotRun
    /\ ptOut' = ParseTime(ptText)
    /\ UNCHANGED <<ptIn, ptText, ptBack>>
    /\ UNCHANGED matchVars
    /\ UNCHANGED selectVars
    /\ UNCHANGED bookVars
    /\ UNCHANGED findVars
    /\ UNCHANGED poolVars
    /\ UNCHANGED configVars

\* _parse_time applied to the rendering of its own result
CallParseTimeAgain ==
    /\ ptOut.kind = "ok"
    /\ ptBack = NotRun
    /\ ptBack' = ParseTime(Render12(ptOut.hour, ptOut.minute))
    /\ UNCHANGED <<ptIn, ptText, ptOut>>
    /\ UNCHANGED matchVars
    /\ UNCHANGED selectVars
    /\ UNCHANGED bookVars
    /\ UNCHANGED findVars
    /\ UNCHANGED poolVars
    /\ UNCHANGED configVars

NextParse == CallParseTime \/ CallParseTimeAgain

SpecParse == InitParse /\ [][NextParse]_vars

----------------------------------------------------------------------------
(* is_matching_time_slot applied to the labels of the page                  *)

InitMatch ==
    /\ mHour \in Hours
    /\ mLabelHour \in Hours
    /\ mForm \in {1, 2}
    /\ mResult = "none"
    /\ ParseIdle
    /\ SelectIdle
    /\ BookIdle
    /\ FindIdle
    /\ PoolIdle
    /\ ConfigIdle

\* is_matching_time_slot(target_time_slot, slot_text), as line 413 calls it
CallIsMatching ==
    /\ mResult = "none"
    /\ mResult' = IF SlotMatches(mHour, WindowLabel(mLabelHour, mForm))
                  THEN "True" ELSE "False"
    /\ UNCHANGED <<mHour, mLabelHour, mForm>>
    /\ UNCHANGED parseVars
    /\ UNCHANGED selectVars
    /\ UNCHANGED bookVars
    /\ UNCHANGED findVars
    /\ UNCHANGED poolVars
    /\ UNCHANGED configVars

NextMatch == CallIsMatching

SpecMatch == InitMatch /\ [][NextMatch]_vars

----------------------------------------------------------------------------
(* Properties of the court selection                                        *)

Returned == ret \in {"True", "False"}

\* the block's lower-cased title and description contain the facility type
HasFacility(block) == Contains(CourtText(block), FacilityType(config))

\* the block's text contains "{facilityType} {courtNumber}"
HasCourtNumber(block) ==
    Contains(CourtText(block), FacilityType(config) \o <<" ">> \o config.court_number)

Available(slot) == slot.tooltip # s_Unavailable

\* the slot's label denotes the one-hour window the configuration asks for
InWindow(slot) == slot.hour = config.hour

Offers(block) ==
    \E j \in 1..Len(block.slots) : Available(block.slots[j]) /\ InWindow(block.slots[j])

\* the blocks with the facility type and an available slot of the window
Candidates == {i \in 1..Len(page.blocks) : HasFacility(page.blocks[i]) /\ Offers(page.blocks[i])}

NumberCandidates == {i \in Candidates : HasCourtNumber(page.blocks[i])}

ClickedBlock == clicked[1][1]
ClickedSlot == page.blocks[clicked[1][1]].slots[clicked[1][2]]

\* C1: with no court number configured and two or more blocks that hold the
\* facility type and an available slot of the desired window, the slot
\* clicked belongs to the first of these blocks in page order.
C1_FirstBlockWins ==
    (Returned /\ config.court_number = <<>> /\ Cardinality(Candidates) >= 2
        /\ clicked # <<>> /\ ClickedBlock \in Candidates)
    => \A i \in Candidates : ClickedBlock <= i

\* C2: with a court number configured, when a block whose text contains
\* "{facilityType} {courtNumber}" has an available slot of the desired
\* window, the slot clicked belongs to such a block.
C2_CourtNumberWins ==
    (Returned /\ config.court_number # <<>> /\ NumberCandidates # {}
        /\ clicked # <<>> /\ ClickedBlock \in Candidates)
    => ClickedBlock \in NumberCandidates

\* C3: every slot clicked is available, denotes the desired window and
\* belongs to a block whose text contains the facility type.
C3_ClickedSlotIsValid ==
    clicked # <<>> =>
        /\ Available(ClickedSlot)
        /\ InWindow(ClickedSlot)
        /\ HasFacility(page.blocks[ClickedBlock])

\* C4: when no block holds the facility type together with an available slot
\* of the desired window, _select_court returns False and clicks nothing.
C4_NoCandidateFails ==
    (Returned /\ Candidates = {}) => (ret = "False" /\ clicked = <<>>)

\* C5: when some block holds the facility type, whatever it is, and an
\* available slot of the desired window, a slot is clicked.
C5_CandidateIsSelected ==
    (Returned /\ Candidates # {}) => clicked # <<>>

----------------------------------------------------------------------------
(* Properties of the window matching                                        *)

\* C6: a label of the one-hour window starting at another hour than the
\* desired one is never reported as matching the desired window.
C6_MatchSound ==
    (mResult # "none" /\ mLabelHour # mHour) => mResult = "False"

\* C7: for every desired start hour, both labels of the window starting at
\* that hour are reported as matching, midnight and the end-of-day wrap
\* included.
C7_MatchComplete ==
    (mResult # "none" /\ mLabelHour = mHour) => mResult = "True"

----------------------------------------------------------------------------
(* Properties of _parse_time                                                *)

HasAm(in) == in.ind \in {"am", "ampm"}
HasPm(in) == in.ind \in {"pm", "ampm"}

\* a time string "H[:MM] [am|pm]": H in 1..12 with one indicator, H in 0..23
\* with none, MM in 00..59
WellFormedTime(in) ==
    /\ ~in.extra
    /\ in.mm >= -1
    /\ \/ in.ind = "none" /\ in.h \in 0..23
       \/ in.ind \in {"am", "pm"} /\ in.h \in 1..12

\* C8: a well-formed time string parses to an hour in 0..23 and a minute in
\* 0..59, and parsing the rendering "H:MMam/pm" of the result gives the same
\* pair again.
C8_ParseRangeAndRoundTrip ==
    WellFormedTime(ptIn) =>
        /\ ptOut # NotRun =>
              /\ ptOut.kind = "ok"
              /\ ptOut.hour \in 0..23
              /\ ptOut.minute \in 0..59
              /\ ptOut.minute = (IF ptIn.mm = -1 THEN 0 ELSE ptIn.mm)
        /\ ptBack # NotRun => ptBack = ptOut

C8_Witness ==
    /\ WellFormedTime(ptIn)
    /\ ptText = <<"6", ":", "3", "0", " ", "p", "m">>
    /\ ptOut = Parsed(18, 30)
    /\ ptBack = Parsed(18, 30)

C10_CorrectionsInSequence ==
    (ptOut.kind = "ok" /\ ptIn.h >= 0) =>
        LET afterPm == IF HasPm(ptIn) /\ ptIn.h < 12 THEN ptIn.h + 12 ELSE ptIn.h
        IN ptOut.hour = (IF HasAm(ptIn) /\ afterPm = 12 THEN 0 ELSE afterPm)

\* C10, amended: the corrections are alternatives decided on the parsed hour:
\* pm and hour < 12 gives hour + 12; otherwise am and hour = 12 gives 0;
\* otherwise the hour is unchanged. With both indicators and hour 0 the
\* result is 12.
C10_CorrectionsAlternative ==
    (ptOut.kind = "ok" /\ ptIn.h >= 0) =>
        ptOut.hour = (IF HasPm(ptIn) /\ ptIn.h < 12 THEN ptIn.h + 12
                      ELSE IF HasAm(ptIn) /\ ptIn.h = 12 THEN 0
                      ELSE ptIn.h)

C10_Witness ==
    /\ ptIn.ind = "ampm"
    /\ ptIn.h = 0
    /\ ptOut.kind = "ok"
    /\ ptOut.hour = 12

----------------------------------------------------------------------------
(* The booking flow                                                         *)

Range(seq) == {seq[i] : i \in 1..Len(seq)}

StepOrder == <<"login", "navigate", "select_date", "select_court", "finalize">>

\* C17: the steps run in the order login, navigate, select date, select
\* court, finalize; a step is invoked only after every earlier step returned
\* True, no step is invoked twice, and nothing follows the first step that
\* returned False.
C17_StepsInOrder ==
    /\ Len(calls) <= Len(StepOrder)
    /\ calls = SubSeq(StepOrder, 1, Len(calls))
    /\ Len(rets) = Len(calls)
    /\ \A i \in 1..(Len(calls) - 1) : rets[i]

\* a run that stopped at the court selection, the fourth step
C17_Witness ==
    /\ pc = "done"
    /\ Len(calls) = 4
    /\ ~rets[4]

\* C20: one run of _select_court clicks at most one slot, and it returns True
\* only if a slot was clicked and the cart then holds at most one item; more
\* than one item makes it return False.
C20_OneDecisionOrFailure ==
    /\ Len(clicked) <= 1
    /\ (ret = "True" => (Len(clicked) = 1 /\ cart <= 1))
    /\ ((Len(clicked) = 1 /\ cart > 1) => ret = "False")

\* a slot was clicked and the cart then held two items
C20_Witness ==
    /\ Len(clicked) = 1
    /\ cart = 2
    /\ ret = "False"

----------------------------------------------------------------------------
(* The candidate search                                                     *)

\* the arguments for which the block's lower-cased "title description"
\* holds the facility type
HasFacilityFor ==
    [h \in FindHeaders |-> {a \in FindArgs : Contains(CourtText(h), a.facility_type)}]

\* 50 when a court number is given and "{facilityType} {courtNumber}" is in the text
NumberBonus(text, a) ==
    IF Len(a.court_number) > 0 /\ Contains(text, a.facility_type \o <<" ">> \o a.court_number)
    THEN 50 ELSE 0

\* 30 when both the facility type and the text hold the keyword
KeywordBonus(text, a, keyword) ==
    IF Contains(a.facility_type, keyword) /\ Contains(text, keyword) THEN 30 ELSE 0

\* the name score the scoring table gives
TableScore ==
    [h \in FindHeaders |->
        [a \in FindArgs |->
            IF a \notin HasFacilityFor[h] THEN 0
            ELSE 100 + NumberBonus(CourtText(h), a)
                     + KeywordBonus(CourtText(h), a, s_badminton)
                     + KeywordBonus(CourtText(h), a, s_pickle)]]

\* the blocks whose text holds "badminton 2"
HoldsBadmintonTwo == {h \in FindHeaders : Contains(CourtText(h), <<"b", "a", "d", "m", "i", "n", "t", "o", "n", " ", "2">>)}

FindDone == fOut.kind = "ok"
FindBlock(i) == fIn.blocks[i]
FindHeader(i) == HeaderOf(fIn.blocks[i])
WithHeader == {i \in 1..Len(fIn.blocks) : fIn.blocks[i].header}

\* C12: the name score of a block is 0 without the facility type in its text,
\* else 100, plus 50 for the court number, plus 30 for "badminton", plus 30
\* for "pickle"; "badminton 2" with facility "badminton" and court "2" is 180.
C12_NameScore ==
    FindDone =>
        \A i \in WithHeader :
            /\ fOut.scores[i] = TableScore[FindHeader(i)][ArgsOf(fIn)]
            /\ (/\ fIn.facility_type = s_badminton
                /\ fIn.court_number = <<"2">>
                /\ FindHeader(i) \in HoldsBadmintonTwo) => fOut.scores[i] = 180

\* a block "Badminton 2" was scored for facility "badminton", court "2"
C12_Witness ==
    /\ FindDone
    /\ fIn.court_number = <<"2">>
    /\ \E i \in WithHeader : FindHeader(i) \in HoldsBadmintonTwo /\ fOut.scores[i] = 180

\* the slots of a block are looked at by _select_court only for
\* configurations whose facility type is in the block's text
SelectExaminesFacilityOnly ==
    \A h \in Headers : \A cfg \in ExaminedFor[h] : Contains(CourtText(h), FacilityType(cfg))

\* C13: a score above 0 implies the facility type is in the block's text; a
\* block whose text lacks it is never a candidate and never has its slots
\* examined.
C13_ScoreNeedsFacility ==
    /\ SelectExaminesFacilityOnly
    /\ FindDone =>
          \A i \in WithHeader :
              /\ fOut.scores[i] > 0 => ArgsOf(fIn) \in HasFacilityFor[FindHeader(i)]
              /\ ArgsOf(fIn) \notin HasFacilityFor[FindHeader(i)] =>
                    /\ i \notin fOut.examined
                    /\ \A t \in DOMAIN fOut.court_matches : fOut.court_matches[t].div # i

\* the slot is available and its text holds one of the time formats
GoodSlotFor ==
    [slot \in FindSlots \cup {SoldSlot} |->
        {a \in FindArgs :
            /\ Contains(slot.class, s_success)
            /\ \E k \in 1..Len(a.time_formats) :
                  Contains(Lower(Strip(slot.text)), Lower(a.time_formats[k]))}]

\* the indices of the block's available, time-matching slots
GoodSlots(i) ==
    {j \in 1..Len(FindBlock(i).slots) : ArgsOf(fIn) \in GoodSlotFor[FindBlock(i).slots[j]]}

\* a block without the facility type, holding a slot that is available and
\* matches, went through the search
C13_Witness ==
    /\ FindDone
    /\ \E i \in WithHeader :
          /\ ArgsOf(fIn) \notin HasFacilityFor[FindHeader(i)]
          /\ GoodSlots(i) # {}
          /\ fOut.scores[i] = 0

\* C14: the +50 availability bonus goes only to blocks with an available,
\* time-matching slot, a block with a positive name score and no such slot is
\* not a candidate, and every candidate has a non-empty slot list and a score
\* of at least 150.
C14_AvailabilityBonus ==
    FindDone =>
        /\ \A t \in DOMAIN fOut.court_matches :
              LET c == fOut.court_matches[t]
              IN /\ c.slots # <<>>
                 /\ c.score >= 150
                 /\ c.score = fOut.scores[c.div] + 50
                 /\ GoodSlots(c.div) # {}
        /\ \A i \in WithHeader :
              (fOut.scores[i] > 0 /\ GoodSlots(i) = {}) =>
                  \A t \in DOMAIN fOut.court_matches : fOut.court_matches[t].div # i

\* one block became a candidate and another, with a positive name score and
\* no available matching slot, did not
C14_Witness ==
    /\ FindDone
    /\ DOMAIN fOut.court_matches # {}
    /\ \E i \in WithHeader : fOut.scores[i] > 0 /\ GoodSlots(i) = {}

\* C15: every block with a positive score and an available, time-matching
\* slot is in the candidate set with its own score and its own matching
\* slots, also when two blocks carry the same title.
C15_EveryQualifiedBlockIsCandidate ==
    FindDone =>
        \A i \in WithHeader :
            (fOut.scores[i] > 0 /\ GoodSlots(i) # {}) =>
                \E t \in DOMAIN fOut.court_matches :
                    LET c == fOut.court_matches[t]
                    IN /\ c.div = i
                       /\ c.score = fOut.scores[i] + 50
                       /\ {c.slots[k][1] : k \in 1..Len(c.slots)} = GoodSlots(i)

\* C16: the matching slots of a block are its available slots of the desired
\* window in their order, once each, and the slot selected in the chosen
\* block is the first of them.
C16_FirstMatchingSlotSelected ==
    (clicked # <<>> /\ Offers(page.blocks[ClickedBlock])) =>
        LET slots == page.blocks[ClickedBlock].slots
            j == clicked[1][2]
        IN /\ Available(slots[j]) /\ InWindow(slots[j])
           /\ \A k \in 1..(j - 1) : ~(Available(slots[k]) /\ InWindow(slots[k]))

----------------------------------------------------------------------------
(* The parallel run                                                         *)

\* the results entry of a user whose processing ended as o
EntryFor(o) ==
    IF o = "True" THEN <<TRUE, "">>
    ELSE IF o = "False" THEN <<FALSE, "">>
    ELSE <<FALSE, "Error">>

\* C18: for every interleaving and every max_workers >= 1 each user is
\* processed exactly once and, when main finishes, results holds exactly one
\* (success, error) entry per user; a user whose construction or booking
\* raised has the entry (False, error message), whatever the others did.
C18_OneEntryPerUser ==
    mainpc # "idle" =>
        /\ \A u \in UserSet : processed[u] <= 1
        /\ DOMAIN results \subseteq UserSet
        /\ \A u \in DOMAIN results : results[u] = EntryFor(outcome[u])
        /\ (mainpc = "done" /\ users # <<>>) =>
              /\ DOMAIN results = UserSet
              /\ \A u \in UserSet : processed[u] = 1

\* main finished a run of several users, of which one raised and one booked
C18_Witness ==
    /\ mainpc = "done"
    /\ Len(users) >= 2
    /\ \E u, v \in UserSet :
          /\ outcome[u] = "init raises"
          /\ results[u] = <<FALSE, "Error">>
          /\ results[v] = <<TRUE, "">>

----------------------------------------------------------------------------
(* The end of the booking flow                                              *)

\* the booking steps are over: all five were called or the last one called
\* returned False
StepsOver == Len(calls) = Len(StepOrder) \/ (rets # <<>> /\ ~rets[Len(rets)])

\* C21: on every path of execute_booking driver.quit() is invoked exactly
\* once, after all booking steps and after any logout attempt, before
\* execute_booking returns.
C21_QuitExactlyOnce ==
    pc # "idle" =>
        /\ quits <= 1
        /\ (pc = "done" <=> quits = 1)
        /\ (returned # "none" <=> quits = 1)
        /\ quits = 1 => StepsOver
        /\ quits = 1 => (Len(logouts) = 1 <=> rets[1])
        /\ (ENABLED NextBooking) \/ quits = 1

\* execute_booking returned after a failed step and a logout attempt
C21_Witness ==
    /\ pc = "done"
    /\ quits = 1
    /\ Len(calls) = 2
    /\ logouts # <<>>

\* the login step was made and returned True
LoginReturnedTrue == rets # <<>> /\ rets[1]

\* C22: a logout is attempted if and only if the login step succeeded;
\* logged_in becomes True only at the end of a successful _login (also when
\* clearing the cart failed), becomes False only when one of the three
\* fallbacks of _logout confirms the logout, and stays True when _logout
\* returns False.
C22_SessionPairing ==
    pc # "idle" =>
        /\ Len(logouts) <= 1
        /\ pc \in {"quit", "done"} => (logouts # <<>> <=> LoginReturnedTrue)
        /\ pc \notin {"quit", "done"} => logouts = <<>>
        /\ rets # <<>> => (rets[1] <=> login_way \in {"ok", "cart failed"})
        /\ logouts = <<>> => (logged_in <=> LoginReturnedTrue)
        /\ logouts # <<>> => (logged_in <=> logouts[1] \notin {"menu", "link", "navigation"})

\* the cart could not be cleared, the login succeeded all the same, and the
\* logout at the end was not confirmed
C22_Witness ==
    /\ pc = "done"
    /\ login_way = "cart failed"
    /\ logouts = <<"failed">>
    /\ logged_in

\* all five steps were called and each returned True
AllStepsTrue == Len(rets) = Len(StepOrder) /\ \A i \in 1..Len(rets) : rets[i]

\* C23: execute_booking returns True if and only if all five steps returned
\* True, returns False when a step fails, and a failed logout does not change
\* the returned value.
C23_TrueIffAllSteps ==
    /\ pc = "done" => returned \in {"True", "False"}
    /\ pc = "done" => (returned = "True" <=> AllStepsTrue)
    /\ (pc # "done" /\ pc # "idle") => returned = "none"

\* all steps succeeded, the logout was not confirmed, True was returned
C23_Witness ==
    /\ pc = "done"
    /\ returned = "True"
    /\ Len(calls) = 5
    /\ logouts = <<"failed">>

----------------------------------------------------------------------------
(* The users of the configuration                                           *)

SectionSet == {sections[i] : i \in 1..Len(sections)}

\* every string a section name starts with
Prefixes == UNION {{SubSeq(n, 1, k) : k \in 0..Len(n)} : n \in SectionNames}

\* the prefixes X with both sections X_LOGIN and X_BOOKING
BothSections ==
    {x \in Prefixes : (x \o s_LOGIN) \in SectionSet /\ (x \o s_BOOKING) \in SectionSet}

\* C24: get_valid_users returns exactly the prefixes X for which both X_LOGIN
\* and X_BOOKING exist, each once; for every returned user _load_config
\* raises neither missing-section error, and a prefix with only one of the
\* two sections is never processed.
C24_UsersAgreeWithLoading ==
    valid_users.kind = "ok" =>
        /\ {valid_users.users[i] : i \in 1..Len(valid_users.users)} = BothSections
        /\ \A i, j \in 1..Len(valid_users.users) :
              i # j => valid_users.users[i] # valid_users.users[j]
        /\ DOMAIN loaded \subseteq BothSections
        /\ \A u \in DOMAIN loaded : loaded[u] = "ok"

\* a user with both sections was loaded while another prefix had its login
\* section only
C24_Witness ==
    /\ valid_users.kind = "ok"
    /\ DOMAIN loaded # {}
    /\ \E n \in SectionSet :
          /\ EndsWith(n, s_LOGIN)
          /\ UserPrefix(n) \notin BothSections

====
